---- MODULE Spec2Model ----
(***************************************************************************)
(* Model of sporthalle: the crawl -> sync pipeline of crawl.py and the     *)
(* time helpers of utils.py.                                               *)
(*                                                                         *)
(* A date is the ordinal of a day of the year 2025 (0 = 2025-01-01), a     *)
(* datetime is a number of minutes since 2025-01-01T00:00; None is the     *)
(* absent datetime.                                                        *)
(***************************************************************************)
EXTENDS Integers, Sequences, FiniteSets, TLC

\* ---------------------------------------------------------------- bounds
MaxEvents == 2
MaxRemote == 2
MaxCycles == 2
MaxFailures == 1

\* ------------------------------------------------------- datetime library
None == -1

MinutesPerDay == 1440

MonthDays == <<31, 28, 31, 30, 31, 30, 31, 31, 30, 31, 30, 31>>

RECURSIVE DaysBefore(_)
DaysBefore(m) == IF m <= 1 THEN 0 ELSE DaysBefore(m - 1) + MonthDays[m - 1]

\* datetime.date(): the calendar date of a datetime
DateOf(dt) == dt \div MinutesPerDay

\* date.month
MonthOf(d) == CHOOSE m \in 1..12 : DaysBefore(m) <= d /\ d < DaysBefore(m) + MonthDays[m]

\* datetime.day / date.day: the day of the month, 1..31
DayOfMonth(d) == d - DaysBefore(MonthOf(d)) + 1

\* date(year=2025, month, day)
MkDate(month, day) == DaysBefore(month) + day - 1

\* datetime.combine(d, time(hour, minute))
Combine(d, hour, minute) == d * MinutesPerDay + hour * 60 + minute

\* ------------------------------------------------------------- utils.py
add_hours_avoiding_next_day(dt, hours) ==
    IF dt = None THEN None
    ELSE LET new_dt == dt + hours * 60
         IN  IF DayOfMonth(DateOf(new_dt)) # DayOfMonth(DateOf(dt))
             THEN Combine(DateOf(dt) + 1, 0, 0)
             ELSE new_dt

\* What a call does: it returns a value or raises
Returned(value) == [error |-> "none", value |-> value]
Raised(error) == [error |-> error, value |-> None]

\* int() of a string of two decimal digits
Int2(digits) == digits[1] * 10 + digits[2]

\* g.split(":") of a capture of \d{2}:\d{2}, given as its four digits
SplitColon(g) == << SubSeq(g, 1, 2), SubSeq(g, 3, 4) >>

\* time(hour, minute) raises ValueError outside 0..23 and 0..59
TimeInRange(hour, minute) == hour \in 0..23 /\ minute \in 0..59

\* parse_datetime(d, match): match is <<>> (no match) or <<group(1)>>
parse_datetime(d, match) ==
    IF match = <<>> THEN Returned(None)
    ELSE LET hm == SplitColon(match[1])
             hour == Int2(hm[1])
             minute == Int2(hm[2])
         IN  IF TimeInRange(hour, minute)
             THEN Returned(Combine(d, hour, minute))
             ELSE Raised("ValueError")

\* ------------------------------------------------------ model universe
\* CalendarEvent (the description plays no part in the sync)
CalendarEvent(category, artist, day, doors, begin) ==
    [category |-> category, artist |-> artist, day |-> day,
     doors |-> doors, begin |-> begin]

Day1 == MkDate(6, 12)
Day2 == MkDate(6, 13)

\* The events the scraped page is drawn from, as parse_event leaves them: two
\* shows of one artist on one day (begin only, the end crosses midnight; doors
\* only), the same artist on another day, and another artist.
EventUniverse ==
    { CalendarEvent("Konzert", "A", Day1, None, Combine(Day1, 22, 0)),
      CalendarEvent("Konzert", "A", Day1, Combine(Day1, 16, 0), None),
      CalendarEvent("Konzert", "A", Day2, None, Combine(Day2, 22, 0)),
      CalendarEvent("Konzert", "B", Day1, Combine(Day1, 16, 0), None) }

\* All sequences over S of length at most n
RECURSIVE SeqsUpTo(_, _)
SeqsUpTo(S, n) ==
    IF n = 0 THEN { <<>> }
    ELSE LET shorter == SeqsUpTo(S, n - 1)
         IN  shorter \cup { Append(q, x) : q \in { r \in shorter : Len(r) = n - 1 }, x \in S }

\* ------------------------------------------------------------ crawl.py
\* f"[{event.category}] {event.artist}"
Summary(event) == "[" \o event.category \o "] " \o event.artist

BeginHours == 3
DoorsHours == 5
max_workers == 10

\* update_or_create_event: the values to be written for an event
dtstart(event) == IF event.doors # None THEN event.doors ELSE event.begin

dtend_unclamped(event) ==
    IF event.begin # None
    THEN event.begin + BeginHours * 60
    ELSE event.doors + DoorsHours * 60

dtend(event) ==
    IF event.begin # None
    THEN add_hours_avoiding_next_day(event.begin, BeginHours)
    ELSE add_hours_avoiding_next_day(event.doors, DoorsHours)

\* A calendar entry (caldav.Event): its resource id and VEVENT fields
Entry(id, summary, start, end) ==
    [id |-> id, summary |-> summary, dtstart |-> start, dtend |-> end]

\* The entries an earlier sync of one event could have left behind
EntryUniverse == { [summary |-> Summary(e), dtstart |-> dtstart(e), dtend |-> dtend(e)] : e \in EventUniverse }

\* Matching rule of find_existing_event
Matches(existing, event) ==
    /\ existing.summary = Summary(event)
    /\ DateOf(existing.dtstart) = event.day

\* find_existing_event forgetting the date
find_existing_event_by_summary(calendar, event) ==
    LET hits == { k \in 1..Len(calendar) : calendar[k].summary = Summary(event) }
    IN  IF hits = {} THEN <<>>
        ELSE << calendar[CHOOSE k \in hits : \A l \in hits : k <= l] >>

\* find_existing_event returning the last match instead of the first
find_existing_event_last_match(calendar, event) ==
    LET hits == { k \in 1..Len(calendar) : Matches(calendar[k], event) }
    IN  IF hits = {} THEN <<>>
        ELSE << calendar[CHOOSE k \in hits : \A l \in hits : k >= l] >>

\* find_existing_event: the first matching entry of calendar.events(), as a
\* sequence of length 0 (None) or 1
find_existing_event(calendar, event) ==
    LET hits == { k \in 1..Len(calendar) : Matches(calendar[k], event) }
    IN  IF hits = {} THEN <<>>
        ELSE << calendar[CHOOSE k \in hits : \A l \in hits : k <= l] >>

\* new_event_summaries of sync_events
new_event_summaries(events) == { Summary(events[k]) : k \in 1..Len(events) }

\* save() writing every entry that has the saved entry's summary
save_by_summary(calendar, id, summary, start, end) ==
    [ k \in 1..Len(calendar) |->
        IF calendar[k].summary = summary
        THEN Entry(calendar[k].id, summary, start, end) ELSE calendar[k] ]

\* existing_event.save(): PUT of the entry's fields to its resource
save(calendar, id, summary, start, end) ==
    [ k \in 1..Len(calendar) |->
        IF calendar[k].id = id THEN Entry(id, summary, start, end) ELSE calendar[k] ]

\* calendar.save_event(dtstart, dtend, summary): a new resource
save_event(calendar, id, summary, start, end) ==
    Append(calendar, Entry(id, summary, start, end))

\* existing_event.delete()
delete(calendar, id) == SelectSeq(calendar, LAMBDA x : x.id # id)

\* update_or_create_event writing whatever dry_run says
update_or_create_event_ignoring_dry_run(calendar, existing, event, dry, id) ==
    LET summary == Summary(event)
        start == dtstart(event)
        end == dtend(event)
    IN  IF existing # <<>>
        THEN IF \/ existing[1].dtstart # start
                \/ existing[1].dtend # end
                \/ existing[1].summary # summary
             THEN [ decision |-> "Updated", call |-> "save", id |-> existing[1].id,
                    calendar |-> save(calendar, existing[1].id, summary, start, end) ]
             ELSE [ decision |-> "NoChanges", call |-> "none", id |-> existing[1].id,
                    calendar |-> calendar ]
        ELSE [ decision |-> "Created", call |-> "save_event", id |-> id,
               calendar |-> save_event(calendar, id, summary, start, end) ]

\* update_or_create_event after its lookup returned `existing` (a sequence of
\* length 0 or 1): the decision it logs, the mutating call it makes and the
\* calendar it leaves. `id` is the resource id a created entry gets.
update_or_create_event(calendar, existing, event, dry, id) ==
    LET summary == Summary(event)
        start == dtstart(event)
        end == dtend(event)
    IN  IF existing # <<>>
        THEN IF \/ existing[1].dtstart # start
                \/ existing[1].dtend # end
                \/ existing[1].summary # summary
             THEN [ decision |-> "Updated",
                    call |-> IF dry THEN "none" ELSE "save",
                    id |-> existing[1].id,
                    calendar |-> IF dry THEN calendar
                                 ELSE save(calendar, existing[1].id, summary, start, end) ]
             ELSE [ decision |-> "NoChanges", call |-> "none", id |-> existing[1].id,
                    calendar |-> calendar ]
        ELSE [ decision |-> "Created",
               call |-> IF dry THEN "none" ELSE "save_event",
               id |-> id,
               calendar |-> IF dry THEN calendar
                            ELSE save_event(calendar, id, summary, start, end) ]

\* delete_event with its test inverted
delete_event_inverted(summaries, existing_event, dry, calendar) ==
    IF existing_event.summary \in summaries
    THEN [ decision |-> "Deleting",
           call |-> IF dry THEN "none" ELSE "delete",
           calendar |-> IF dry THEN calendar ELSE delete(calendar, existing_event.id) ]
    ELSE [ decision |-> "Keep", call |-> "none", calendar |-> calendar ]

\* delete_event for one entry of the snapshot
delete_event(summaries, existing_event, dry, calendar) ==
    IF existing_event.summary \notin summaries
    THEN [ decision |-> "Deleting",
           call |-> IF dry THEN "none" ELSE "delete",
           calendar |-> IF dry THEN calendar ELSE delete(calendar, existing_event.id) ]
    ELSE [ decision |-> "Keep", call |-> "none", calendar |-> calendar ]

\* find_elements raising only when end markers are missing
ElementCountMissmatch_only_fewer_ends(n_start, n_end) == n_start > n_end

\* find_elements raising on a page without markers too
ElementCountMissmatch_or_empty(n_start, n_end) == n_start # n_end \/ n_start = 0

\* find_elements: the marker counts disagree
ElementCountMissmatch(n_start, n_end) == n_start # n_end

\* crawl, given the page's markers and what parse_event makes of the groups
crawl(n_start, n_end, events) ==
    IF n_start = 0 \/ n_end = 0 THEN <<>> ELSE events

\* ---------------------------------------------------------------- state
VARIABLES
    page,             \* the venue's page: the events of its groups, its end markers
    remote,           \* the calendar: its entries in listing order
    next_id,          \* the resource id of the next created entry
    cycle,            \* invocations of main so far
    pc,               \* where main is: idle, update, delete, done, error
    dry_run,          \* args.dry_run of this invocation
    new_events,       \* sync_events: the scraped events
    existing_events,  \* sync_events: the snapshot taken at its start
    utask,            \* one update_or_create_event task per new event
    dtask,            \* one delete_event task per snapshot entry
    udecision,        \* what each update_or_create_event call logged
    ddecision,        \* what each delete_event call logged
    calls,            \* mutating calls that reached the calendar in this cycle
    created,          \* ids of the entries created in this cycle
    updated,          \* ids of the entries saved in this cycle
    failures,         \* remote operations that raised so far
    history,          \* one record per finished invocation of main
    u_pc, u_dt, u_hours, u_result,  \* a call of add_hours_avoiding_next_day
    f_pc, f_args, f_result,         \* a call of parse_datetime or parse_event
    f_target,                       \* what update_or_create_event computes from it
    doc,                            \* the fetched page: its elements in order
    c_pc, c_groups, c_result        \* a call of crawl on doc

sync_vars == <<page, remote, next_id, cycle, pc, dry_run, new_events, existing_events,
               utask, dtask, udecision, ddecision, calls, created, updated, failures,
               history>>
time_vars == <<u_pc, u_dt, u_hours, u_result>>
parse_vars == <<f_pc, f_args, f_result, f_target>>
crawl_vars == <<doc, c_pc, c_groups, c_result>>
util_vars == <<time_vars, parse_vars, crawl_vars>>
vars == <<sync_vars, util_vars>>

NoCalls == [save_event |-> 0, save |-> 0, delete |-> 0]

Count(c, name) == [c EXCEPT ![name] = @ + 1]

\* The calendars main can find: entries of earlier syncs, ids in listing order
RemoteStores ==
    { [ k \in 1..Len(q) |-> Entry(k, q[k].summary, q[k].dtstart, q[k].dtend) ] :
        q \in SeqsUpTo(EntryUniverse, MaxRemote) }

Pages ==
    { [events |-> ev, n_end |-> n] : ev \in SeqsUpTo(EventUniverse, MaxEvents), n \in 0..MaxEvents }

TimeIdle ==
    /\ u_pc = "off" /\ u_dt = None /\ u_hours = 0 /\ u_result = None

ParseIdle ==
    /\ f_pc = "off" /\ f_args = <<>> /\ f_result = <<>> /\ f_target = <<>>

CrawlIdle ==
    /\ doc = <<>> /\ c_pc = "off" /\ c_groups = <<>> /\ c_result = <<>>

UtilIdle == TimeIdle /\ ParseIdle /\ CrawlIdle

Init ==
    /\ page \in Pages
    /\ remote \in RemoteStores
    /\ next_id = Len(remote) + 1
    /\ cycle = 0
    /\ pc = "idle"
    /\ dry_run = FALSE
    /\ new_events = <<>>
    /\ existing_events = <<>>
    /\ utask = <<>>
    /\ dtask = <<>>
    /\ udecision = <<>>
    /\ ddecision = <<>>
    /\ calls = NoCalls
    /\ created = {}
    /\ updated = {}
    /\ failures = 0
    /\ history = <<>>
    /\ UtilIdle

\* ----------------------------------------------------------------- main
MainEnabled == pc \in {"idle", "done", "error"} /\ cycle < MaxCycles

CycleRecord(outcome) ==
    [ outcome |-> outcome, dry_run |-> dry_run, failures |-> failures,
      udecision |-> udecision, ddecision |-> ddecision, calls |-> calls ]

\* main, lines 195-198: crawl raised, the error is logged and main returns
MainError(dry, outcome) ==
    /\ MainEnabled
    /\ cycle' = cycle + 1
    /\ dry_run' = dry
    /\ pc' = "error"
    /\ new_events' = <<>>
    /\ existing_events' = <<>>
    /\ utask' = <<>>
    /\ dtask' = <<>>
    /\ udecision' = <<>>
    /\ ddecision' = <<>>
    /\ calls' = NoCalls
    /\ created' = {}
    /\ updated' = {}
    /\ history' = Append(history,
                         [ outcome |-> outcome, dry_run |-> dry, failures |-> failures,
                           udecision |-> <<>>, ddecision |-> <<>>, calls |-> NoCalls ])
    /\ UNCHANGED <<page, remote, next_id, failures, util_vars>>

\* fetch_webpage_content raised httpx.RequestError
MainRequestError == \E dry \in BOOLEAN : MainError(dry, "RequestError")

\* find_elements raised ElementCountMissmatchError
MainCountMissmatch ==
    /\ ElementCountMissmatch(Len(page.events), page.n_end)
    /\ \E dry \in BOOLEAN : MainError(dry, "ElementCountMissmatchError")

PhaseOneStart(events) == [ k \in 1..Len(events) |-> [pc |-> "idle", existing |-> <<>>] ]

\* main, lines 196 and 200, and sync_events, lines 168-173: the crawl
\* succeeds, the snapshot is taken and the first pool's tasks are submitted
MainSync ==
    /\ MainEnabled
    /\ ~ElementCountMissmatch(Len(page.events), page.n_end)
    /\ \E dry \in BOOLEAN : dry_run' = dry
    /\ LET events == crawl(Len(page.events), page.n_end, page.events)
       IN  /\ new_events' = events
           /\ utask' = PhaseOneStart(events)
           /\ udecision' = [ k \in 1..Len(events) |-> "none" ]
    /\ existing_events' = remote
    /\ dtask' = [ k \in 1..Len(remote) |-> "idle" ]
    /\ ddecision' = [ k \in 1..Len(remote) |-> "none" ]
    /\ cycle' = cycle + 1
    /\ pc' = "update"
    /\ calls' = NoCalls
    /\ created' = {}
    /\ updated' = {}
    /\ UNCHANGED <<page, remote, next_id, failures, history, util_vars>>

\* ------------------------------------------- phase 1: create and update
Finished(t) == t \in {"done", "failed"}

Running == { k \in 1..Len(utask) : utask[k].pc = "found" }

\* update_or_create_event, line 129: the task's own calendar.events() scan
UpdLookup(i) ==
    /\ pc = "update"
    /\ utask[i].pc = "idle"
    /\ Cardinality(Running) < max_workers
    /\ utask' = [utask EXCEPT ![i] = [pc |-> "found",
                                      existing |-> find_existing_event(remote, new_events[i])]]
    /\ UNCHANGED <<page, remote, next_id, cycle, pc, dry_run, new_events, existing_events,
                   dtask, udecision, ddecision, calls, created, updated, failures,
                   history, util_vars>>

\* What becomes of the pool when one of its tasks raises: the exception is
\* kept in the task's future, which nobody reads
\* A raising task taking the whole pool down with it
TaskRaised_tears_down_pool(tasks, i, failed) == [ k \in 1..Len(tasks) |-> failed ]

TaskRaised(tasks, i, failed) == [tasks EXCEPT ![i] = failed]

FailedTask == [pc |-> "failed", existing |-> <<>>]

\* calendar.events() raises inside the task
UpdLookupFail(i) ==
    /\ pc = "update"
    /\ utask[i].pc = "idle"
    /\ failures < MaxFailures
    /\ utask' = TaskRaised(utask, i, FailedTask)
    /\ failures' = failures + 1
    /\ UNCHANGED <<page, remote, next_id, cycle, pc, dry_run, new_events, existing_events,
                   dtask, udecision, ddecision, calls, created, updated,
                   history, util_vars>>

\* update_or_create_event, lines 130-156
UpdWrite(i) ==
    /\ pc = "update"
    /\ utask[i].pc = "found"
    /\ LET r == update_or_create_event(remote, utask[i].existing, new_events[i],
                                       dry_run, next_id)
       IN  /\ remote' = r.calendar
           /\ udecision' = [udecision EXCEPT ![i] = r.decision]
           /\ calls' = IF r.call = "none" THEN calls ELSE Count(calls, r.call)
           /\ created' = IF r.call = "save_event" THEN created \cup {r.id} ELSE created
           /\ updated' = IF r.call = "save" THEN updated \cup {r.id} ELSE updated
           /\ next_id' = IF r.call = "save_event" THEN next_id + 1 ELSE next_id
    /\ utask' = [utask EXCEPT ![i].pc = "done"]
    /\ UNCHANGED <<page, cycle, pc, dry_run, new_events, existing_events,
                   dtask, ddecision, failures, history, util_vars>>

\* existing_event.save() or calendar.save_event() raises: nothing is written
\* and nothing is logged
UpdWriteFail(i) ==
    /\ pc = "update"
    /\ utask[i].pc = "found"
    /\ failures < MaxFailures
    /\ update_or_create_event(remote, utask[i].existing, new_events[i],
                              dry_run, next_id).call # "none"
    /\ utask' = TaskRaised(utask, i, FailedTask)
    /\ failures' = failures + 1
    /\ UNCHANGED <<page, remote, next_id, cycle, pc, dry_run, new_events, existing_events,
                   dtask, udecision, ddecision, calls, created, updated,
                   history, util_vars>>

\* sync_events, lines 172-173: leaving the with block waits for every task
\* Leaving the first pool without waiting for its tasks
PhaseOneOver_no_wait == TRUE

PhaseOneOver == \A k \in 1..Len(utask) : Finished(utask[k].pc)

EndUpdatePhase ==
    /\ pc = "update"
    /\ PhaseOneOver
    /\ pc' = "delete"
    /\ UNCHANGED <<page, remote, next_id, cycle, dry_run, new_events, existing_events,
                   utask, dtask, udecision, ddecision, calls, created, updated, failures,
                   history, util_vars>>

\* ------------------------------------------------------ phase 2: delete
\* delete_event, lines 159-164
Delete(j) ==
    /\ pc = "delete"
    /\ dtask[j] = "idle"
    /\ LET r == delete_event(new_event_summaries(new_events), existing_events[j],
                             dry_run, remote)
       IN  /\ remote' = r.calendar
           /\ ddecision' = [ddecision EXCEPT ![j] = r.decision]
           /\ calls' = IF r.call = "none" THEN calls ELSE Count(calls, r.call)
    /\ dtask' = [dtask EXCEPT ![j] = "done"]
    /\ UNCHANGED <<page, next_id, cycle, pc, dry_run, new_events, existing_events,
                   utask, udecision, created, updated, failures, history, util_vars>>

\* existing_event.delete() raises, after the deletion was logged
DeleteFail(j) ==
    /\ pc = "delete"
    /\ dtask[j] = "idle"
    /\ failures < MaxFailures
    /\ LET r == delete_event(new_event_summaries(new_events), existing_events[j],
                             dry_run, remote)
       IN  /\ r.call # "none"
           /\ ddecision' = [ddecision EXCEPT ![j] = r.decision]
    /\ dtask' = TaskRaised(dtask, j, "failed")
    /\ failures' = failures + 1
    /\ UNCHANGED <<page, remote, next_id, cycle, pc, dry_run, new_events, existing_events,
                   utask, udecision, calls, created, updated, history, util_vars>>

\* sync_events, lines 176-177: the second with block is left, main returns
PhaseTwoOver == \A k \in 1..Len(dtask) : Finished(dtask[k])

EndDeletePhase ==
    /\ pc = "delete"
    /\ PhaseTwoOver
    /\ pc' = "done"
    /\ history' = Append(history, CycleRecord("synced"))
    /\ UNCHANGED <<page, remote, next_id, cycle, dry_run, new_events, existing_events,
                   utask, dtask, udecision, ddecision, calls, created, updated, failures,
                   util_vars>>

Next ==
    \/ MainRequestError
    \/ MainCountMissmatch
    \/ MainSync
    \/ \E i \in 1..Len(utask) : UpdLookup(i)
    \/ \E i \in 1..Len(utask) : UpdLookupFail(i)
    \/ \E i \in 1..Len(utask) : UpdWrite(i)
    \/ \E i \in 1..Len(utask) : UpdWriteFail(i)
    \/ EndUpdatePhase
    \/ \E j \in 1..Len(dtask) : Delete(j)
    \/ \E j \in 1..Len(dtask) : DeleteFail(j)
    \/ EndDeletePhase

Spec == Init /\ [][Next]_vars

\* ------------------------------------------- utils.py called on its own
MaxHours == 750

\* Datetimes of 2025 from which MaxHours hours either way stay in 2025:
\* 5 and 28 February, 31 May, 12 June at 00:00, 10:00, 21:00 and 23:59
UtilDatetimes ==
    { Combine(d, t[1], t[2]) :
        d \in {MkDate(2, 5), MkDate(2, 28), MkDate(5, 31), MkDate(6, 12)},
        t \in {<<0, 0>>, <<10, 0>>, <<21, 0>>, <<23, 59>>} }

SyncIdle ==
    /\ page = [events |-> <<>>, n_end |-> 0]
    /\ remote = <<>>
    /\ next_id = 1
    /\ cycle = 0
    /\ pc = "off"
    /\ dry_run = FALSE
    /\ new_events = <<>>
    /\ existing_events = <<>>
    /\ utask = <<>>
    /\ dtask = <<>>
    /\ udecision = <<>>
    /\ ddecision = <<>>
    /\ calls = NoCalls
    /\ created = {}
    /\ updated = {}
    /\ failures = 0
    /\ history = <<>>

InitTime ==
    /\ SyncIdle
    /\ ParseIdle
    /\ CrawlIdle
    /\ u_pc = "call"
    /\ u_dt \in UtilDatetimes \cup {None}
    /\ u_hours \in -MaxHours..MaxHours
    /\ u_result = None

\* result = add_hours_avoiding_next_day(dt, hours)
AddHours ==
    /\ u_pc = "call"
    /\ u_result' = add_hours_avoiding_next_day(u_dt, u_hours)
    /\ u_pc' = "returned"
    /\ UNCHANGED <<u_dt, u_hours, sync_vars, parse_vars, crawl_vars>>

NextTime == AddHours

SpecTime == InitTime /\ [][NextTime]_vars

\* ---------------------------------------- parse_datetime called on its own
\* Every capture of (\d{2}:\d{2}): four decimal digits, 00:00 to 99:99
Captures == { <<a, b, c, e>> : a \in 0..9, b \in 0..9, c \in 0..9, e \in 0..9 }

InitParseDatetime ==
    /\ SyncIdle
    /\ TimeIdle
    /\ CrawlIdle
    /\ f_pc = "call"
    /\ f_args \in {Day1, Day2} \X ({ <<>> } \cup { <<g>> : g \in Captures })
    /\ f_result = <<>>
    /\ f_target = <<>>

\* doors = parse_datetime(d, doors_match)
ParseDatetime ==
    /\ f_pc = "call"
    /\ f_result' = parse_datetime(f_args[1], f_args[2])
    /\ f_pc' = IF f_result'.error = "none" THEN "returned" ELSE "raised"
    /\ UNCHANGED <<f_args, f_target, sync_vars, time_vars, crawl_vars>>

NextParseDatetime == ParseDatetime

SpecParseDatetime == InitParseDatetime /\ [][NextParseDatetime]_vars

\* ------------------------------------------------ crawl.py: extraction
\* The stripped text of an element: its characters `s` and what the code's
\* split and patterns make of it. A title is one word; a date line is
\* "<weekday> DD.MM.YYYY <category>"; a time line is "Einlass: HH:MM Uhr" or
\* "Beginn: HH:MM Uhr"; a note is any other text of several words.
Text(t, str, date, category, capture) ==
    [t |-> t, s |-> str, date |-> date, category |-> category, capture |-> capture]

Title(str) == Text("title", str, <<>>, "", <<>>)
DateLine(str, date, category) == Text("dateline", str, date, category, <<>>)
Einlass(str, capture) == Text("Einlass", str, <<>>, "", capture)
Beginn(str, capture) == Text("Beginn", str, <<>>, "", capture)
Note(str) == Text("note", str, <<>>, "", <<>>)

\* A PageElement: how find_elements selects it (start, end, both, plain) and
\* its text; NoneElement is the None that find_next_sibling returns
Element(kind, text) == [kind |-> kind, text |-> text]
NoneElement == Element("None", Note(""))

\* date(year, month, day) raises ValueError for what is no date (of 2025)
DateInRange(year, month, day) ==
    /\ year = 2025
    /\ month \in 1..12
    /\ day \in 1..MonthDays[month]

\* reversed(list(date_string))
Reversed(q) == [ k \in 1..Len(q) |-> q[Len(q) + 1 - k] ]

\* Lines 90-93: category and date from the text of group[1]
parse_day_date_type(text) ==
    IF text.t = "title" THEN Raised("IndexError")
    ELSE IF text.t # "dateline" THEN Raised("ValueError")
    ELSE LET ymd == Reversed(text.date)
         IN  IF DateInRange(ymd[1], ymd[2], ymd[3])
             THEN Returned([category |-> text.category, d |-> MkDate(ymd[2], ymd[3])])
             ELSE Raised("ValueError")

\* re.search of "Einlass: (\d{2}:\d{2}) Uhr" or "Beginn: ..." in the joined
\* texts of group[2:]: <<>> or <<group(1)>> of the first match
search(t, texts) ==
    LET hits == { k \in 1..Len(texts) : texts[k].t = t }
    IN  IF hits = {} THEN <<>>
        ELSE << texts[CHOOSE k \in hits : \A l \in hits : k <= l].capture >>

\* The fallback testing doors alone
force_doors_without_doors(doors, begin, d) ==
    IF doors = None THEN Combine(d, 16, 0) ELSE doors

\* Lines 100-102: doors after the fallback
force_doors(doors, begin, d) ==
    IF doors = None /\ begin = None THEN Combine(d, 16, 0) ELSE doors

\* parse_event(group): the CalendarEvent built, whether doors was forced, or
\* the exception raised
parse_event(group) ==
    IF Len(group) < 2 THEN Raised("IndexError")
    ELSE IF group[2] = NoneElement THEN Raised("AttributeError")
    ELSE LET artist == group[1].text.s
             head == parse_day_date_type(group[2].text)
             rest == SubSeq(group, 3, Len(group))
         IN  IF head.error # "none" THEN Raised(head.error)
             ELSE IF \E k \in 1..Len(rest) : rest[k] = NoneElement
                  THEN Raised("AttributeError")
             ELSE LET d == head.value.d
                      description == [ k \in 1..Len(rest) |-> rest[k].text ]
                      doors == parse_datetime(d, search("Einlass", description))
                      begin == parse_datetime(d, search("Beginn", description))
                  IN  IF doors.error # "none" THEN Raised(doors.error)
                      ELSE IF begin.error # "none" THEN Raised(begin.error)
                      ELSE [ error |-> "none",
                             forced |-> force_doors(doors.value, begin.value, d) # doors.value,
                             value |-> CalendarEvent(head.value.category, artist, d,
                                                     force_doors(doors.value, begin.value, d),
                                                     begin.value) ]

\* ------------------------------------------- parse_event called on its own
MaxGroup == 4

\* The texts the elements of a group are drawn from
ParseTexts ==
    { Title("A"),
      DateLine("Do 12.06.2025 Konzert", <<12, 6, 2025>>, "Konzert"),
      DateLine("Fr 31.01.2025 Show", <<31, 1, 2025>>, "Show"),
      Einlass("Einlass: 16:00 Uhr", <<1, 6, 0, 0>>),
      Einlass("Einlass: 22:00 Uhr", <<2, 2, 0, 0>>),
      Einlass("Einlass: 25:00 Uhr", <<2, 5, 0, 0>>),
      Beginn("Beginn: 18:00 Uhr", <<1, 8, 0, 0>>),
      Beginn("Beginn: 22:00 Uhr", <<2, 2, 0, 0>>),
      Note("Tickets ab 20 Euro") }

\* The groups collect_selected_elements can hand over: elements, the last of
\* which may be the None of an exhausted sibling walk
ParseGroups ==
    LET elements == { Element("plain", t) : t \in ParseTexts }
    IN  { g \in SeqsUpTo(elements \cup {NoneElement}, MaxGroup) :
            /\ Len(g) >= 1
            /\ \A k \in 1..(Len(g) - 1) : g[k] # NoneElement
            /\ g[1] # NoneElement }

InitParse ==
    /\ SyncIdle
    /\ TimeIdle
    /\ CrawlIdle
    /\ f_pc = "call"
    /\ f_args \in { <<g>> : g \in ParseGroups }
    /\ f_result = <<>>
    /\ f_target = <<>>

\* event = parse_event(group)
ParseEvent ==
    /\ f_pc = "call"
    /\ f_result' = parse_event(f_args[1])
    /\ f_pc' = IF f_result'.error = "none" THEN "returned" ELSE "raised"
    /\ UNCHANGED <<f_args, f_target, sync_vars, time_vars, crawl_vars>>

\* update_or_create_event, lines 130-132, for the parsed event
ComputeTarget ==
    /\ f_pc = "returned"
    /\ f_target' = [ summary |-> Summary(f_result.value),
                     dtstart |-> dtstart(f_result.value),
                     dtend |-> dtend(f_result.value) ]
    /\ f_pc' = "targeted"
    /\ UNCHANGED <<f_args, f_result, sync_vars, time_vars, crawl_vars>>

NextParse == ParseEvent \/ ComputeTarget

SpecParse == InitParse /\ [][NextParse]_vars

\* ----------------------------------------------- crawl on a fetched document
MaxNodes == 4

\* find_all(class_="rahmen_radius_l"): positions of the start elements
start_elements(soup) ==
    SelectSeq([k \in 1..Len(soup) |-> k], LAMBDA k : soup[k].kind \in {"start", "both"})

\* find_all(style="margin-left:4px;..."): positions of the end elements
end_elements(soup) ==
    SelectSeq([k \in 1..Len(soup) |-> k], LAMBDA k : soup[k].kind \in {"end", "both"})

\* find_next_sibling(): the next element of the document, 0 for None
find_next_sibling(soup, k) == IF k < Len(soup) THEN k + 1 ELSE 0

\* The while loop of collect_selected_elements: current_group when it ends
RECURSIVE Walk(_, _, _, _)
Walk(soup, ends, current_element, current_group) ==
    IF current_element # 0 /\ current_element \notin ends
    THEN LET next == find_next_sibling(soup, current_element)
         IN  Walk(soup, ends, next, Append(current_group, next))
    ELSE current_group

collect_selected_elements(soup, starts, ends) ==
    LET end_set == { ends[k] : k \in 1..Len(ends) }
    IN  [ i \in 1..Len(starts) |-> Walk(soup, end_set, starts[i], <<starts[i]>>) ]

\* The elements a group of positions stands for
Nodes(soup, group) ==
    [ k \in 1..Len(group) |-> IF group[k] = 0 THEN NoneElement ELSE soup[group[k]] ]

\* The texts and documents crawl is run on: siblings under one parent
CrawlTexts ==
    { Title("A"),
      DateLine("Do 12.06.2025 Konzert", <<12, 6, 2025>>, "Konzert"),
      Beginn("Beginn: 22:00 Uhr", <<2, 2, 0, 0>>) }

Documents ==
    LET elements == { Element(kind, t) : kind \in {"start", "end", "both", "plain"},
                                         t \in CrawlTexts }
    IN  { d \in SeqsUpTo(elements, MaxNodes) : Len(d) >= 1 }

InitCrawl ==
    /\ SyncIdle
    /\ TimeIdle
    /\ ParseIdle
    /\ doc \in Documents
    /\ c_pc = "call"
    /\ c_groups = <<>>
    /\ c_result = <<>>

\* find_elements raises ElementCountMissmatchError
FindElementsRaise ==
    /\ c_pc = "call"
    /\ ElementCountMissmatch(Len(start_elements(doc)), Len(end_elements(doc)))
    /\ c_pc' = "raised"
    /\ c_result' = Raised("ElementCountMissmatchError")
    /\ UNCHANGED <<doc, c_groups, sync_vars, time_vars, parse_vars>>

\* find_elements returns no markers: crawl returns []
CrawlEmpty ==
    /\ c_pc = "call"
    /\ ~ElementCountMissmatch(Len(start_elements(doc)), Len(end_elements(doc)))
    /\ Len(start_elements(doc)) = 0 \/ Len(end_elements(doc)) = 0
    /\ c_pc' = "returned"
    /\ c_result' = Returned(<<>>)
    /\ UNCHANGED <<doc, c_groups, sync_vars, time_vars, parse_vars>>

\* all_selected_elements = collect_selected_elements(start_elements, end_elements)
Collect ==
    /\ c_pc = "call"
    /\ ~ElementCountMissmatch(Len(start_elements(doc)), Len(end_elements(doc)))
    /\ Len(start_elements(doc)) # 0 /\ Len(end_elements(doc)) # 0
    /\ c_groups' = collect_selected_elements(doc, start_elements(doc), end_elements(doc))
    /\ c_pc' = "collected"
    /\ UNCHANGED <<doc, c_result, sync_vars, time_vars, parse_vars>>

\* events = [parse_event(group) for group in all_selected_elements]: the first
\* group that raises ends crawl; parse_event returns no None, so the filter of
\* line 114 keeps every event
ParseGroupsOf(soup, groups) ==
    LET results == [ i \in 1..Len(groups) |-> parse_event(Nodes(soup, groups[i])) ]
        raising == { i \in 1..Len(groups) : results[i].error # "none" }
    IN  IF raising # {}
        THEN Raised(results[CHOOSE i \in raising : \A j \in raising : i <= j].error)
        ELSE Returned([ i \in 1..Len(groups) |-> results[i].value ])

CrawlParse ==
    /\ c_pc = "collected"
    /\ c_result' = ParseGroupsOf(doc, c_groups)
    /\ c_pc' = IF c_result'.error = "none" THEN "returned" ELSE "raised"
    /\ UNCHANGED <<doc, c_groups, sync_vars, time_vars, parse_vars>>

NextCrawl == FindElementsRaise \/ CrawlEmpty \/ Collect \/ CrawlParse

SpecCrawl == InitCrawl /\ [][NextCrawl]_vars

\* ======================================================== verification
Ids(calendar) == { calendar[k].id : k \in 1..Len(calendar) }

EntryOf(calendar, id) == calendar[CHOOSE k \in 1..Len(calendar) : calendar[k].id = id]

\* Number of positions of a log holding a decision
Times(log, decision) == Cardinality({ k \in 1..Len(log) : log[k] = decision })

SameDecisions(a, b) ==
    \A d \in {"none", "Created", "Updated", "NoChanges", "Deleting", "Keep"} :
        Times(a, d) = Times(b, d)

\* The invocation of main that just returned was a full sync
Synced == pc = "done" /\ Len(history) = cycle /\ history[cycle].outcome = "synced"

\* Two syncs in a row, no remote operation having raised
TwoSyncs(dry1, dry2) ==
    /\ Synced
    /\ cycle >= 2
    /\ failures = 0
    /\ history[cycle - 1].outcome = "synced"
    /\ history[cycle - 1].dry_run = dry1
    /\ history[cycle].dry_run = dry2

\* C1: a second non-dry-run sync of the same target list, run right after a
\* first one with no failure and no other writer, logs "No changes" for every
\* event and makes no save_event, save or delete call.
C1_SecondRunIsNoOp ==
    TwoSyncs(FALSE, FALSE) =>
        /\ history[cycle].calls = NoCalls
        /\ \A k \in 1..Len(udecision) : udecision[k] = "NoChanges"
        /\ \A k \in 1..Len(ddecision) : ddecision[k] = "Keep"

\* C2: during and after a dry-run sync no mutating call has reached the
\* calendar and the calendar is the one the cycle's snapshot saw.
C2_DryRunLeavesRemote ==
    (dry_run /\ pc \in {"update", "delete", "done"}) =>
        /\ calls = NoCalls
        /\ remote = existing_events
        /\ created = {} /\ updated = {}

C2_Witness ==
    /\ dry_run /\ pc = "done"
    /\ \E k \in 1..Len(udecision) : udecision[k] = "Created"
    /\ \E k \in 1..Len(udecision) : udecision[k] = "Updated"
    /\ \E k \in 1..Len(ddecision) : ddecision[k] = "Deleting"

\* Some event of the list has the entry's key (summary, day of start)
SomeEventMatches(entry, events) == \E k \in 1..Len(events) : Matches(entry, events[k])

\* The entry carries exactly what update_or_create_event computes for event
Carries(entry, event) ==
    /\ entry.summary = Summary(event)
    /\ entry.dtstart = dtstart(event)
    /\ entry.dtend = dtend(event)

\* A non-dry-run sync just returned and no remote operation has raised
CleanSync == Synced /\ ~dry_run /\ failures = 0

C4_NoDuplicateCreate ==
    \A a \in created : \A b \in created :
        (a # b /\ a \in Ids(remote) /\ b \in Ids(remote)) =>
            ~ ( /\ EntryOf(remote, a).summary = EntryOf(remote, b).summary
                /\ DateOf(EntryOf(remote, a).dtstart) = DateOf(EntryOf(remote, b).dtstart) )

\* C5: once a delete_event task has run, every update_or_create_event task of
\* the cycle has finished, and in the delete phase and after it every entry
\* created or saved in the cycle is still in the calendar.
C5_PhaseOrdering ==
    /\ (\E j \in 1..Len(dtask) : dtask[j] # "idle") =>
           \A i \in 1..Len(utask) : Finished(utask[i].pc)
    /\ pc \in {"delete", "done"} => (created \cup updated) \subseteq Ids(remote)

C5_Witness ==
    /\ pc = "done" /\ ~dry_run
    /\ created # {} /\ updated # {}
    /\ calls.delete > 0

FailedTasks ==
    Cardinality({ i \in 1..Len(utask) : utask[i].pc = "failed" })
    + Cardinality({ j \in 1..Len(dtask) : dtask[j] = "failed" })

\* C6: a task that raises stops no other task: only the tasks whose own
\* remote operation raised end as failed, every other task of the phase has
\* run to its end when the phase is left, and the delete phase is run to its
\* end whatever happened in the create/update phase.
C6_FailureIsolation ==
    /\ FailedTasks <= failures
    /\ pc \in {"delete", "done"} =>
           \A i \in 1..Len(utask) :
               \/ utask[i].pc = "failed"
               \/ utask[i].pc = "done" /\ udecision[i] # "none"
    /\ pc = "done" =>
           \A j \in 1..Len(dtask) :
               \/ dtask[j] = "failed"
               \/ dtask[j] = "done" /\ ddecision[j] # "none"

\* One task of the first phase raised; its sibling created its entry and the
\* delete phase deleted afterwards
C6_Witness ==
    /\ pc = "done" /\ ~dry_run
    /\ \E i \in 1..Len(utask) : \E k \in 1..Len(utask) :
           /\ utask[i].pc = "failed"
           /\ utask[k].pc = "done" /\ udecision[k] = "Created"
    /\ \E j \in 1..Len(dtask) : dtask[j] = "done" /\ ddecision[j] = "Deleting"

\* C7: in a non-dry-run cycle a snapshot entry whose delete_event call has
\* returned is gone from the calendar exactly if its summary is the summary of
\* no target event.
C7_DeleteBySummary ==
    ~dry_run =>
        \A j \in 1..Len(dtask) :
            dtask[j] = "done" =>
                ( existing_events[j].id \notin Ids(remote)
                  <=> \A k \in 1..Len(new_events) :
                          existing_events[j].summary # Summary(new_events[k]) )

\* One snapshot entry was deleted, another one was kept although no target
\* event has its date
C7_Witness ==
    /\ pc = "done" /\ ~dry_run
    /\ \E j \in 1..Len(dtask) :
           dtask[j] = "done" /\ existing_events[j].id \notin Ids(remote)
    /\ \E j \in 1..Len(dtask) :
           /\ dtask[j] = "done" /\ existing_events[j].id \in Ids(remote)
           /\ ~SomeEventMatches(existing_events[j], new_events)

\* C8: a page whose marker counts disagree never gets main past the crawl,
\* and a step in which main returns with a crawl error (count mismatch or
\* failed fetch) leaves the calendar as it was, with no event handed to
\* sync_events and no mutating call.
C8_FatalCrawlError ==
    /\ [](Len(page.events) # page.n_end => pc \in {"idle", "error"})
    /\ [][pc' = "error" =>
             /\ remote' = remote
             /\ next_id' = next_id
             /\ calls' = NoCalls
             /\ new_events' = <<>> /\ utask' = <<>> /\ dtask' = <<>>]_vars

C8_Witness ==
    /\ pc = "error"
    /\ history[cycle].outcome = "ElementCountMissmatchError"
    /\ Len(page.events) > 0
    /\ Len(remote) > 0

\* C9: a dry-run sync followed by a non-dry-run sync of the same target list
\* on the same calendar: both log the same multiset of decisions.
C9_DryRunSameDecisions ==
    TwoSyncs(TRUE, FALSE) =>
        /\ SameDecisions(history[cycle - 1].udecision, history[cycle].udecision)
        /\ SameDecisions(history[cycle - 1].ddecision, history[cycle].ddecision)

\* C10: add_hours_avoiding_next_day(t, h) is None for None; it is 00:00 of the
\* day after t's day when t + h hours falls on another calendar day than t,
\* and t + h hours otherwise.
C10_AddHoursClamped ==
    u_pc = "returned" =>
        IF u_dt = None THEN u_result = None
        ELSE IF DateOf(u_dt + u_hours * 60) # DateOf(u_dt)
             THEN u_result = Combine(DateOf(u_dt) + 1, 0, 0)
             ELSE u_result = u_dt + u_hours * 60

\* C12: the lookup of every update_or_create_event task returns what the
\* snapshot taken at the start of the cycle holds for its event.
C12_LookupReadsSnapshot ==
    \A i \in 1..Len(utask) :
        utask[i].pc = "found" =>
            utask[i].existing = find_existing_event(existing_events, new_events[i])

\* The lookup result for an event on a calendar: nothing if no entry has the
\* event's key, else the first entry in listing order that has it
IsFirstMatch(existing, calendar, event) ==
    \/ /\ existing = <<>>
       /\ \A n \in 1..Len(calendar) : ~Matches(calendar[n], event)
    \/ /\ Len(existing) = 1
       /\ \E n \in 1..Len(calendar) :
              /\ calendar[n] = existing[1]
              /\ Matches(calendar[n], event)
              /\ \A m \in 1..(n - 1) : ~Matches(calendar[m], event)

\* C15: a task's lookup returns the first entry with the event's key on the
\* calendar as it is then; the task then logs exactly one decision: Created
\* iff the lookup found nothing, No changes iff the found entry carries the
\* computed start, end and summary, Updated otherwise. No changes writes
\* nothing; in a non-dry-run cycle Updated leaves the found entry carrying the
\* computed values and Created appends an entry carrying them.
C15_OneDecisionPerEvent ==
    [][ (pc = "update" /\ pc' = "update") =>
          \A i \in 1..Len(utask) :
              /\ (utask[i].pc = "idle" /\ utask'[i].pc = "found") =>
                     IsFirstMatch(utask'[i].existing, remote, new_events[i])
              /\ (utask[i].pc = "found" /\ utask'[i].pc = "done") =>
                     LET existing == utask[i].existing
                         event == new_events[i]
                     IN  /\ udecision[i] = "none"
                         /\ udecision'[i] =
                                IF existing = <<>> THEN "Created"
                                ELSE IF Carries(existing[1], event) THEN "NoChanges"
                                ELSE "Updated"
                         /\ udecision'[i] = "NoChanges" =>
                                remote' = remote /\ calls' = calls
                         /\ (udecision'[i] = "Updated" /\ ~dry_run) =>
                                /\ existing[1].id \in Ids(remote')
                                /\ Carries(EntryOf(remote', existing[1].id), event)
                                /\ calls' = Count(calls, "save")
                         /\ (udecision'[i] = "Created" /\ ~dry_run) =>
                                /\ Len(remote') = Len(remote) + 1
                                /\ Carries(remote'[Len(remote')], event)
                                /\ calls' = Count(calls, "save_event") ]_vars

\* One event was updated and another one left alone in a non-dry-run cycle
C15_Witness ==
    /\ pc = "done" /\ ~dry_run
    /\ \E i \in 1..Len(udecision) : udecision[i] = "Updated"
    /\ \E i \in 1..Len(udecision) : udecision[i] = "NoChanges"

\* C19: a page without start and end markers is no crawl error; a non-dry-run
\* sync of it in which nothing raises has an empty target list, creates and
\* saves nothing and deletes every entry of its snapshot.
C19_EmptyScrapeWipes ==
    (Len(page.events) = 0 /\ page.n_end = 0) =>
        /\ pc = "error" => history[cycle].outcome = "RequestError"
        /\ pc \in {"update", "delete", "done"} => new_events = <<>>
        /\ CleanSync =>
               /\ calls.save_event = 0 /\ calls.save = 0
               /\ calls.delete = Len(existing_events)
               /\ \A j \in 1..Len(ddecision) : ddecision[j] = "Deleting"
               /\ remote = <<>>

C19_Witness ==
    /\ Len(page.events) = 0 /\ page.n_end = 0
    /\ CleanSync
    /\ Len(existing_events) = MaxRemote
    /\ remote = <<>>

\* C20: the write step of update_or_create_event for an event changes at most
\* one entry of the calendar: it removes none, it appends at most one and then
\* changes no other, and an entry it changes has the event's key and is the
\* first entry in listing order that has it.
C20_WriteFrame ==
    [][ (pc = "update" /\ pc' = "update") =>
          \A i \in 1..Len(utask) :
              (utask[i].pc = "found" /\ utask'[i].pc = "done") =>
                  LET changed == { n \in 1..Len(remote) : remote'[n] # remote[n] }
                  IN  /\ Len(remote') \in {Len(remote), Len(remote) + 1}
                      /\ Cardinality(changed) + (Len(remote') - Len(remote)) <= 1
                      /\ \A n \in changed :
                             /\ remote'[n].id = remote[n].id
                             /\ Matches(remote[n], new_events[i])
                             /\ \A m \in 1..(n - 1) : ~Matches(remote[m], new_events[i]) ]_vars

\* An event was updated while a second entry with its key, listed later, kept
\* other values
C20_Witness ==
    /\ pc = "update" /\ ~dry_run
    /\ \E i \in 1..Len(utask) :
           /\ utask[i].pc = "done" /\ udecision[i] = "Updated"
           /\ \E n \in 1..Len(remote) : \E m \in 1..Len(remote) :
                  /\ n < m
                  /\ Matches(remote[n], new_events[i]) /\ Carries(remote[n], new_events[i])
                  /\ Matches(remote[m], new_events[i]) /\ ~Carries(remote[m], new_events[i])

\* C17: a call of parse_datetime ends by returning, never by raising: None
\* for no match, and for a capture either None or the datetime on the given
\* day with the captured hour and minute.
C17_ParseDatetimeTotal ==
    f_pc \in {"returned", "raised"} =>
        /\ f_pc = "returned"
        /\ f_args[2] = <<>> => f_result.value = None
        /\ f_args[2] # <<>> =>
               \/ f_result.value = None
               \/ /\ DateOf(f_result.value) = f_args[1]
                  /\ f_result.value - f_args[1] * MinutesPerDay
                         = Int2(SubSeq(f_args[2][1], 1, 2)) * 60 + Int2(SubSeq(f_args[2][1], 3, 4))

\* The captures of the Einlass / Beginn lines among the texts of group[2:]
LinesOf(t, group) ==
    { k \in 3..Len(group) : group[k] # NoneElement /\ group[k].text.t = t }

\* Minutes after midnight that a capture of an in-range time stands for
MinuteOfDay(capture) ==
    (capture[1] * 10 + capture[2]) * 60 + capture[3] * 10 + capture[4]

FirstCapture(t, group) ==
    group[CHOOSE k \in LinesOf(t, group) : \A l \in LinesOf(t, group) : k <= l].text.capture

\* C11: an event returned by parse_event has doors or begin; with no Einlass
\* and no Beginn line in its description doors is forced to 16:00 of its day
\* and begin is absent; with at least one such line nothing is forced and doors
\* and begin are the times of the first Einlass and Beginn line, absent where
\* there is none; doors and begin, where present, are on the event's day.
C11_DoorsOrBegin ==
    f_pc \in {"returned", "targeted"} =>
        LET event == f_result.value
            group == f_args[1]
            midnight == event.day * MinutesPerDay
        IN  /\ event.doors # None \/ event.begin # None
            /\ event.doors # None => DateOf(event.doors) = event.day
            /\ event.begin # None => DateOf(event.begin) = event.day
            /\ IF LinesOf("Einlass", group) = {} /\ LinesOf("Beginn", group) = {}
               THEN /\ f_result.forced
                    /\ event.doors = midnight + 16 * 60
                    /\ event.begin = None
               ELSE /\ ~f_result.forced
                    /\ event.doors =
                           IF LinesOf("Einlass", group) = {} THEN None
                           ELSE midnight + MinuteOfDay(FirstCapture("Einlass", group))
                    /\ event.begin =
                           IF LinesOf("Beginn", group) = {} THEN None
                           ELSE midnight + MinuteOfDay(FirstCapture("Beginn", group))

\* An event with forced doors, and one with a Beginn line only
C11_Witness ==
    /\ f_pc = "returned"
    /\ Len(f_args[1]) = 3
    /\ LinesOf("Beginn", f_args[1]) # {}
    /\ f_result.value.doors = None
    /\ f_result.value.begin # None

\* The earlier of t + hours and 00:00 of the day after t's day
ClampedEnd(t, hours) ==
    LET midnight == (DateOf(t) + 1) * MinutesPerDay
    IN  IF t + hours * 60 < midnight THEN t + hours * 60 ELSE midnight

\* C16: for every event extraction produces, the values computed for a create
\* or update are: start = doors if present, else begin; end = begin + 3 h if
\* begin is present, else doors + 5 h, cut at 00:00 of the next day; summary =
\* "[category] artist". Start and end are both present and end is no later than
\* 00:00 of the day after the event's day.
C16_TargetValues ==
    f_pc = "targeted" =>
        LET event == f_result.value
        IN  /\ f_target.dtstart = IF event.doors # None THEN event.doors ELSE event.begin
            /\ f_target.dtend = IF event.begin # None
                                THEN ClampedEnd(event.begin, 3)
                                ELSE ClampedEnd(event.doors, 5)
            /\ f_target.summary = "[" \o event.category \o "] " \o event.artist
            /\ f_target.dtstart # None
            /\ f_target.dtend # None
            /\ f_target.dtend <= (event.day + 1) * MinutesPerDay

\* An event at the end of a month whose end is cut at midnight
C16_Witness ==
    /\ f_pc = "targeted"
    /\ f_result.value.day = MkDate(1, 31)
    /\ f_result.value.begin = Combine(MkDate(1, 31), 22, 0)
    /\ f_target.dtend = Combine(MkDate(2, 1), 0, 0)
    /\ f_target.dtstart = f_result.value.begin

\* C18: for every event extraction produces, the entry to be written ends
\* strictly later than it starts.
C18_EndAfterStart ==
    f_pc = "targeted" => f_target.dtend > f_target.dtstart

\* The positions first..last in order
Range(first, last) == [ k \in 1..(last - first + 1) |-> first + k - 1 ]

\* Where the group of the start element at position s has to end
GroupEnd(soup, s) ==
    LET ends == { k \in s..Len(soup) : soup[k].kind \in {"end", "both"} }
    IN  IF ends = {} THEN Len(soup)
        ELSE CHOOSE k \in ends : \A l \in ends : k <= l

\* C14: collect_selected_elements returns one group per start marker, in their
\* order; each group is the start node and its next siblings up to and
\* including the first end marker, or up to the last sibling when none
\* follows; every member is a node of the document, never None; a start
\* marker that is an end marker gives the group [start].
C14_GroupsAreSiblingRuns ==
    c_pc = "collected" =>
        LET starts == start_elements(doc)
        IN  /\ Len(c_groups) = Len(starts)
            /\ \A i \in 1..Len(starts) :
                   /\ c_groups[i] = Range(starts[i], GroupEnd(doc, starts[i]))
                   /\ \A k \in 1..Len(c_groups[i]) : c_groups[i][k] \in 1..Len(doc)

\* A group without its two header nodes
TooShort(group) == Len(group) < 2 \/ group[2] = 0

\* C13: when crawl meets a group too short for the two header nodes and the
\* other groups are parseable, it raises nothing and returns the events of
\* the other groups in order.
C13_MalformedGroupSkipped ==
    LET wellformed == SelectSeq(c_groups, LAMBDA g : ~TooShort(g))
    IN  ( /\ c_pc \in {"returned", "raised"}
          /\ \E i \in 1..Len(c_groups) : TooShort(c_groups[i])
          /\ \A i \in 1..Len(wellformed) :
                 parse_event(Nodes(doc, wellformed[i])).error = "none" )
        => /\ c_pc = "returned"
           /\ c_result.value =
                  [ i \in 1..Len(wellformed) |-> parse_event(Nodes(doc, wellformed[i])).value ]

====
